---- MODULE Spec2Model ----
(***************************************************************************)
(* rgpy: a compiled-once line matcher (MatcherWrapper) applied to one file *)
(* (search_file, per-line workers behind par_bridge) or to a directory     *)
(* tree (search_dir, per-file workers behind par_iter).  src/src/lib.rs.   *)
(*                                                                         *)
(* Text is a tuple of one-character strings.  A line of a file is the      *)
(* tuple of its bytes; the byte "#FF" is not valid UTF-8, so a line that   *)
(* holds it makes BufRead::lines yield Err for that line.                  *)
(***************************************************************************)
EXTENDS Integers, Sequences, FiniteSets, Bags, TLC

\* ------------------------------------------------------------------ bounds
MaxLines == 2      \* lines per file
MaxWorkers == 2    \* size of the rayon pool
IdxCap == 3        \* saturation point of the enumerate() counter

\* ------------------------------------------------------------------ values
None == [some |-> FALSE]
Some(x) == [some |-> TRUE, v |-> x]
unwrap_or(o, d) == IF o.some THEN o.v ELSE d

Foo == <<"f", "o", "o">>
Bar == <<"b", "a", "r">>
UpperFoo == <<"F", "O", "O">>
OpenParen == <<"(">>
Bad == <<"#FF">>

Min(a, b) == IF a < b THEN a ELSE b

\* ----------------------------------------------------------- the matcher
\* Case folding done by the engines when the pattern is built caseless.
LowerChar(c) ==
    CASE c = "F" -> "f"
      [] c = "O" -> "o"
      [] c = "B" -> "b"
      [] c = "A" -> "a"
      [] c = "R" -> "r"
      [] OTHER -> c

Lower(t) == [k \in 1..Len(t) |-> LowerChar(t[k])]

\* The engines' pattern syntax, as far as the model's patterns use it: a
\* pattern is a literal, and an unclosed group does not compile.
ValidPattern(pattern) == \A k \in 1..Len(pattern) : pattern[k] # "("

\* Unanchored search of a literal in a text.
Contains(t, p) ==
    \E k \in 0..(Len(t) - Len(p)) : SubSeq(t, k + 1, k + Len(p)) = p

\* MatcherType::is_match: dispatch on the variant fixed at construction.
is_match(m, text) ==
    CASE m.engine = "Regex" ->
           IF m.ignore_case THEN Contains(Lower(text), Lower(m.pattern))
                            ELSE Contains(text, m.pattern)
      [] m.engine = "Pcre2" ->
           IF m.ignore_case THEN Contains(Lower(text), Lower(m.pattern))
                            ELSE Contains(text, m.pattern)

Ok(v) == [ok |-> TRUE, v |-> v]
Err(msg) == [ok |-> FALSE, msg |-> msg]

\* The engine's own description of why a pattern does not compile.
Diagnostic(engine, pattern) ==
    IF engine = "Pcre2" THEN "missing closing parenthesis" ELSE "unclosed group"

\* Variant of new that builds a default-engine matcher when the pcre
\* feature is missing.
new_Fallback(pattern, ignore_case, engine, feature) ==
    LET ic == unwrap_or(ignore_case, FALSE)
        use_pcre == unwrap_or(engine, "regex") = "pcre2"
    IN IF use_pcre /\ feature
       THEN IF ValidPattern(pattern)
            THEN Ok([engine |-> "Pcre2", pattern |-> pattern, ignore_case |-> ic])
            ELSE Err("Invalid PCRE pattern: " \o Diagnostic("Pcre2", pattern))
       ELSE IF ValidPattern(pattern)
            THEN Ok([engine |-> "Regex", pattern |-> pattern, ignore_case |-> ic])
            ELSE Err("Invalid regex: " \o Diagnostic("Regex", pattern))

\* Variant of new that hands out a matcher without looking at the result of
\* build().
new_NoValidate(pattern, ignore_case, engine, feature) ==
    LET ic == unwrap_or(ignore_case, FALSE)
        use_pcre == unwrap_or(engine, "regex") = "pcre2"
    IN IF use_pcre
       THEN IF feature
            THEN Ok([engine |-> "Pcre2", pattern |-> pattern, ignore_case |-> ic])
            ELSE Err("pcre2 engine not enabled")
       ELSE Ok([engine |-> "Regex", pattern |-> pattern, ignore_case |-> ic])

\* Variant of new that takes every selector other than "regex" for the
\* extended engine.
new_NotRegex(pattern, ignore_case, engine, feature) ==
    LET ic == unwrap_or(ignore_case, FALSE)
        use_pcre == unwrap_or(engine, "regex") # "regex"
    IN IF use_pcre
       THEN IF feature
            THEN IF ValidPattern(pattern)
                 THEN Ok([engine |-> "Pcre2", pattern |-> pattern, ignore_case |-> ic])
                 ELSE Err("Invalid PCRE pattern: " \o Diagnostic("Pcre2", pattern))
            ELSE Err("pcre2 engine not enabled")
       ELSE IF ValidPattern(pattern)
            THEN Ok([engine |-> "Regex", pattern |-> pattern, ignore_case |-> ic])
            ELSE Err("Invalid regex: " \o Diagnostic("Regex", pattern))

\* MatcherWrapper::new.  feature is the build's "pcre" feature.
new(pattern, ignore_case, engine, feature) ==
    LET ic == unwrap_or(ignore_case, FALSE)
        use_pcre == unwrap_or(engine, "regex") = "pcre2"
    IN IF use_pcre
       THEN IF feature
            THEN IF ValidPattern(pattern)
                 THEN Ok([engine |-> "Pcre2", pattern |-> pattern, ignore_case |-> ic])
                 ELSE Err("Invalid PCRE pattern: " \o Diagnostic("Pcre2", pattern))
            ELSE Err("pcre2 engine not enabled")
       ELSE IF ValidPattern(pattern)
            THEN Ok([engine |-> "Regex", pattern |-> pattern, ignore_case |-> ic])
            ELSE Err("Invalid regex: " \o Diagnostic("Regex", pattern))

\* ------------------------------------------------------- the file system
\* A node: kind is "file", "dir", "symlink" or "missing"; perm says whether
\* open/read_dir is permitted; rderr says that every read of the opened file
\* fails (a failing device); lines are the file's lines, terminators
\* stripped; children are a directory's entries in enumeration order.
LineSet == {Foo, Bar, Bad}
Contents == UNION {[1..n -> LineSet] : n \in 0..MaxLines}

FileNode(lines) ==
    [kind |-> "file", perm |-> TRUE, rderr |-> FALSE, lines |-> lines, children |-> <<>>]
NoPermNode ==
    [kind |-> "file", perm |-> FALSE, rderr |-> FALSE, lines |-> <<Foo>>, children |-> <<>>]
RdErrNode ==
    [kind |-> "file", perm |-> TRUE, rderr |-> TRUE, lines |-> <<>>, children |-> <<>>]
DirNode(children) ==
    [kind |-> "dir", perm |-> TRUE, rderr |-> FALSE, lines |-> <<>>, children |-> children]
NoPermDirNode(children) ==
    [kind |-> "dir", perm |-> FALSE, rderr |-> FALSE, lines |-> <<>>, children |-> children]
SymlinkNode ==
    [kind |-> "symlink", perm |-> TRUE, rderr |-> FALSE, lines |-> <<>>, children |-> <<>>]
DeviceNode ==
    [kind |-> "device", perm |-> TRUE, rderr |-> TRUE, lines |-> <<>>, children |-> <<>>]
MissingNode ==
    [kind |-> "missing", perm |-> FALSE, rderr |-> FALSE, lines |-> <<>>, children |-> <<>>]

FileNodes == {FileNode(c) : c \in Contents} \cup {NoPermNode, RdErrNode}

Paths == {"d", "d/a", "d/s", "d/s/b", "nx"}

\* Decoding of a line's bytes as UTF-8 (read_line's InvalidData).
Decodable(line) == \A k \in 1..Len(line) : line[k] # "#FF"

\* File::open: the OS refuses a missing path and a path without permission;
\* a directory opens (its reads fail later).
open(node) ==
    CASE node.kind = "missing" -> Err("No such file or directory (os error 2)")
      [] ~node.perm -> Err("Permission denied (os error 13)")
      [] OTHER -> Ok(node)

\* Every read of this opened node fails: a directory (EISDIR) or a failing
\* device.  Lines::next then yields Some(Err) on every call, never None.
ReadsFail(node) == node.kind # "file" \/ node.rderr

\* Variant of NextLine that numbers the lines after dropping the undecodable
\* ones (enumerate() placed behind the filter).
NextLine_EnumerateAfterFilter(node, pos) ==
    LET seen == Cardinality({j \in 1..pos : Decodable(node.lines[j])})
    IN IF ReadsFail(node) THEN Some([i |-> pos, line |-> Err("read")])
       ELSE IF pos >= Len(node.lines) THEN None
       ELSE IF Decodable(node.lines[pos + 1])
            THEN Some([i |-> seen, line |-> Ok(node.lines[pos + 1])])
            ELSE Some([i |-> seen, line |-> Err("InvalidData")])

\* Variant of NextLine that ends the file at the first line that does not
\* decode (map_while(Result::ok) in place of filter_map).
NextLine_StopAtBad(node, pos) ==
    IF ReadsFail(node) THEN Some([i |-> pos, line |-> Err("read")])
    ELSE IF pos >= Len(node.lines) THEN None
    ELSE IF Decodable(node.lines[pos + 1])
         THEN Some([i |-> pos, line |-> Ok(node.lines[pos + 1])])
         ELSE None

\* One call of reader.lines().enumerate().next() with pos lines consumed:
\* None at end of file, else the pair (index, Result<String>).
NextLine(node, pos) ==
    IF ReadsFail(node) THEN Some([i |-> pos, line |-> Err("read")])
    ELSE IF pos >= Len(node.lines) THEN None
    ELSE IF Decodable(node.lines[pos + 1])
         THEN Some([i |-> pos, line |-> Ok(node.lines[pos + 1])])
         ELSE Some([i |-> pos, line |-> Err("InvalidData")])

\* The reader's position after that call.  The counter of enumerate() is
\* held at IdxCap on a source that never ends.
Advance(node, pos) ==
    IF ReadsFail(node) THEN Min(pos + 1, IdxCap)
    ELSE Min(pos + 1, Len(node.lines))

\* Variant of MatchLine that tests matched || invert instead of
\* matched ^ invert.
MatchLine_OrInvert(m, invert, path, item) ==
    IF ~item.line.ok THEN None
    ELSE IF is_match(m, item.line.v) \/ invert
         THEN Some([path |-> path, line_number |-> item.i + 1, text |-> item.line.v])
         ELSE None

\* The filter_map closure of both scans: line.ok().and_then(...).
MatchLine(m, invert, path, item) ==
    IF ~item.line.ok THEN None
    ELSE IF is_match(m, item.line.v) # invert
         THEN Some([path |-> path, line_number |-> item.i + 1, text |-> item.line.v])
         ELSE None

\* Variant of Push that keeps only the newest entry of a vector.
Push_Overwrite(vec, opt) == IF opt.some THEN <<opt.v>> ELSE vec

\* Appending an Option to a Vec (what filter_map + collect do to one item).
Push(vec, opt) == IF opt.some THEN Append(vec, opt.v) ELSE vec

\* Variant of ReturnValue that counts when count is not set and lists when
\* it is.
ReturnValue_Swapped(results, count) ==
    IF ~unwrap_or(count, FALSE)
    THEN [kind |-> "count", n |-> Len(results), list |-> <<>>, msg |-> ""]
    ELSE [kind |-> "list", n |-> 0, list |-> results, msg |-> ""]

\* The tail of search_file and search_dir: count or list.
ReturnValue(results, count) ==
    IF unwrap_or(count, FALSE)
    THEN [kind |-> "count", n |-> Len(results), list |-> <<>>, msg |-> ""]
    ELSE [kind |-> "list", n |-> 0, list |-> results, msg |-> ""]

ErrValue(msg) == [kind |-> "err", n |-> 0, list |-> <<>>, msg |-> msg]
NoValue == [kind |-> "none", n |-> 0, list |-> <<>>, msg |-> ""]

\* WalkDir::new(dir).into_iter(): the entries of a depth-first walk, each a
\* Result<DirEntry>; the root comes first, a path that cannot be read gives
\* an Err entry, links are not followed.
RECURSIVE WalkList(_, _, _)
Walk(tree, path) ==
    LET node == tree[path]
    IN CASE node.kind = "missing" -> <<[ok |-> FALSE, path |-> path, ftype |-> "none"]>>
         [] node.kind = "dir" ->
              <<[ok |-> TRUE, path |-> path, ftype |-> "dir"]>> \o
              (IF node.perm THEN WalkList(tree, node.children, 1)
               ELSE <<[ok |-> FALSE, path |-> path, ftype |-> "none"]>>)
         [] OTHER -> <<[ok |-> TRUE, path |-> path, ftype |-> node.kind]>>
WalkList(tree, children, k) ==
    IF k > Len(children) THEN <<>>
    ELSE Walk(tree, children[k]) \o WalkList(tree, children, k + 1)

\* Variant of WalkFiles without the is_file filter.
WalkFiles_NoFilter(tree, dir) ==
    LET all == Walk(tree, dir)
        keep == SelectSeq(all, LAMBDA e : e.ok)
    IN [k \in 1..Len(keep) |-> keep[k].path]

\* .filter_map(|e| e.ok()).filter(|e| e.file_type().is_file()).map(path)
WalkFiles(tree, dir) ==
    LET all == Walk(tree, dir)
        keep == SelectSeq(all, LAMBDA e : e.ok /\ e.ftype = "file")
    IN [k \in 1..Len(keep) |-> keep[k].path]

\* Variant of Concat that keeps the last vector only.
Concat_Last(vecs, n) == IF n = 0 THEN <<>> ELSE vecs[n]

\* collect() of the per-worker (search_file) or per-file (search_dir)
\* vectors: concatenation in the order of the splits.
RECURSIVE Concat(_, _)
Concat(vecs, n) == IF n = 0 THEN <<>> ELSE Concat(vecs, n - 1) \o vecs[n]

\* ------------------------------------------------------------------ state
VARIABLES
    feature,   \* the build has the "pcre" feature
    fs,        \* the file system: path -> node
    matcher,   \* Option<MatcherWrapper> held by the caller
    pc,        \* "idle", "scan", "returned", "failed"
    call,      \* the running (or last) call and its arguments
    nw,        \* workers of the pool serving this call
    rpos,      \* search_file: lines consumed from the shared reader
    held,      \* search_file: the (i, line) a worker took and has not mapped
    wdone,     \* search_file: the worker saw the end of the iterator
    local,     \* search_file: the worker's folded Vec<MatchEntry>
    entries,   \* search_dir: the walked file paths
    slots,     \* search_dir: per entry, scan state, reader position, Vec
    wslot,     \* search_dir: the entry a worker is scanning, 0 if none
    handles,   \* paths with an open File
    ret,       \* what the call returned or raised
    prev       \* the caller's record of the call before this one

vars == <<feature, fs, matcher, pc, call, nw, rpos, held, wdone, local,
          entries, slots, wslot, handles, ret, prev>>

Workers == 1..MaxWorkers
BoolOpts == {None, Some(FALSE), Some(TRUE)}
CountOpts == {None, Some(TRUE)}
InvertOpts == {Some(FALSE), Some(TRUE)}

\* self is the MatcherWrapper a method runs on; fn says that the call came
\* through a module-level function, which compiles its own.
NoCall == [op |-> "none", path |-> "", count |-> None, invert |-> None,
           pattern |-> <<>>, ignore_case |-> None, engine |-> None,
           self |-> None, fn |-> FALSE]
NoPrev == [call |-> NoCall, ret |-> NoValue]

\* What the caller keeps of a finished call when it makes the next one.
Remember == IF pc = "idle" THEN prev ELSE [call |-> call, ret |-> ret]

Idle == pc \in {"idle", "returned", "failed"}

NoScan ==
    /\ nw = 0
    /\ rpos = 0
    /\ held = [w \in Workers |-> None]
    /\ wdone = [w \in Workers |-> FALSE]
    /\ local = [w \in Workers |-> <<>>]
    /\ entries = <<>>
    /\ slots = <<>>
    /\ wslot = [w \in Workers |-> 0]
    /\ handles = {}

\* The locals of a scan do not outlive the call.
DropScan ==
    /\ nw' = 0
    /\ rpos' = 0
    /\ held' = [w \in Workers |-> None]
    /\ wdone' = [w \in Workers |-> FALSE]
    /\ local' = [w \in Workers |-> <<>>]
    /\ entries' = <<>>
    /\ slots' = <<>>
    /\ wslot' = [w \in Workers |-> 0]
    /\ handles' = {}

\* ------------------------------------------------------------ search_file
\* Entry of MatcherWrapper::search_file: File::open(path)?, then the
\* parallel bridge over reader.lines().enumerate() starts.
StartFile(c, n) ==
    /\ prev' = Remember
    /\ call' = c
    /\ LET o == open(fs[c.path])
       IN IF o.ok
          THEN /\ pc' = "scan"
               /\ ret' = NoValue
               /\ nw' = n
               /\ handles' = {c.path}
          ELSE /\ pc' = "failed"
               /\ ret' = ErrValue(o.msg)
               /\ nw' = 0
               /\ handles' = {}
    /\ rpos' = 0
    /\ held' = [w \in Workers |-> None]
    /\ wdone' = [w \in Workers |-> FALSE]
    /\ local' = [w \in Workers |-> <<>>]
    /\ entries' = <<>>
    /\ slots' = <<>>
    /\ wslot' = [w \in Workers |-> 0]

SearchFileCall(path, count, invert, n) ==
    /\ Idle
    /\ matcher.some
    /\ StartFile([NoCall EXCEPT !.op = "search_file", !.path = path,
                                !.count = count, !.invert = invert,
                                !.self = matcher], n)
    /\ UNCHANGED <<feature, fs, matcher>>

\* par_bridge: a worker takes the next item of the shared iterator under
\* its mutex, or learns that the iterator is exhausted.
Pull(w) ==
    /\ pc = "scan"
    /\ call.op = "search_file"
    /\ w \in 1..nw
    /\ ~wdone[w]
    /\ ~held[w].some
    /\ LET it == NextLine(fs[call.path], rpos)
       IN IF it.some
          THEN /\ held' = [held EXCEPT ![w] = it]
               /\ rpos' = Advance(fs[call.path], rpos)
               /\ wdone' = wdone
          ELSE /\ wdone' = [wdone EXCEPT ![w] = TRUE]
               /\ UNCHANGED <<held, rpos>>
    /\ UNCHANGED <<feature, fs, matcher, pc, call, nw, local, entries, slots,
                   wslot, handles, ret, prev>>

\* The worker applies the filter_map closure to its item, outside the mutex,
\* and folds the outcome into its own vector.
Process(w) ==
    /\ pc = "scan"
    /\ call.op = "search_file"
    /\ held[w].some
    /\ local' = [local EXCEPT ![w] =
                   Push(@, MatchLine(call.self.v, unwrap_or(call.invert, FALSE),
                                     call.path, held[w].v))]
    /\ held' = [held EXCEPT ![w] = None]
    /\ UNCHANGED <<feature, fs, matcher, pc, call, nw, rpos, wdone, entries,
                   slots, wslot, handles, ret, prev>>

\* collect() once every worker is done, the reader is dropped, and the
\* count/list branch builds the return value.
FinishFile ==
    /\ pc = "scan"
    /\ call.op = "search_file"
    /\ \A w \in 1..nw : wdone[w]
    /\ ret' = ReturnValue(Concat(local, nw), call.count)
    /\ pc' = "returned"
    /\ DropScan
    /\ UNCHANGED <<feature, fs, matcher, call, prev>>

\* ------------------------------------------------------------- search_dir
\* Entry of MatcherWrapper::search_dir: the walk is collected into entries
\* before any file is opened; the call itself cannot fail.
StartDir(c, n) ==
    /\ prev' = Remember
    /\ call' = c
    /\ pc' = "scan"
    /\ ret' = NoValue
    /\ nw' = n
    /\ entries' = WalkFiles(fs, c.path)
    /\ slots' = [k \in 1..Len(WalkFiles(fs, c.path)) |->
                   [st |-> "todo", pos |-> 0, part |-> <<>>]]
    /\ wslot' = [w \in Workers |-> 0]
    /\ handles' = {}
    /\ rpos' = 0
    /\ held' = [w \in Workers |-> None]
    /\ wdone' = [w \in Workers |-> FALSE]
    /\ local' = [w \in Workers |-> <<>>]

\* Variant of SearchDirCall that moves the matcher out of self into the scan
\* instead of cloning the Arc.
SearchDirCall_Take(dir, count, invert, n) ==
    /\ Idle
    /\ matcher.some
    /\ StartDir([NoCall EXCEPT !.op = "search_dir", !.path = dir,
                               !.count = count, !.invert = invert,
                               !.self = matcher], n)
    /\ matcher' = None
    /\ UNCHANGED <<feature, fs>>

\* let matcher = self.matcher.clone(): the scan works on its own copy.
SearchDirCall(dir, count, invert, n) ==
    /\ Idle
    /\ matcher.some
    /\ StartDir([NoCall EXCEPT !.op = "search_dir", !.path = dir,
                               !.count = count, !.invert = invert,
                               !.self = matcher], n)
    /\ UNCHANGED <<feature, fs, matcher>>

\* Variant of OpenEntry in which a failed open fails the whole call
\* (File::open(path_str)? in place of if let Ok).
OpenEntry_Propagate(w, k) ==
    /\ pc = "scan"
    /\ call.op = "search_dir"
    /\ w \in 1..nw
    /\ wslot[w] = 0
    /\ k \in 1..Len(entries)
    /\ slots[k].st = "todo"
    /\ IF open(fs[entries[k]]).ok
       THEN /\ slots' = [slots EXCEPT ![k].st = "open"]
            /\ wslot' = [wslot EXCEPT ![w] = k]
            /\ handles' = handles \cup {entries[k]}
            /\ UNCHANGED <<pc, ret>>
       ELSE /\ pc' = "returned"
            /\ ret' = ErrValue(open(fs[entries[k]]).msg)
            /\ UNCHANGED <<slots, wslot, handles>>
    /\ UNCHANGED <<feature, fs, matcher, call, nw, rpos, held, wdone,
                   local, entries, prev>>

\* par_iter: a free worker takes an entry and runs File::open(path_str);
\* a failed open makes the entry's contribution vec![].
OpenEntry(w, k) ==
    /\ pc = "scan"
    /\ call.op = "search_dir"
    /\ w \in 1..nw
    /\ wslot[w] = 0
    /\ k \in 1..Len(entries)
    /\ slots[k].st = "todo"
    /\ IF open(fs[entries[k]]).ok
       THEN /\ slots' = [slots EXCEPT ![k].st = "open"]
            /\ wslot' = [wslot EXCEPT ![w] = k]
            /\ handles' = handles \cup {entries[k]}
       ELSE /\ slots' = [slots EXCEPT ![k].st = "done"]
            /\ UNCHANGED <<wslot, handles>>
    /\ UNCHANGED <<feature, fs, matcher, pc, call, nw, rpos, held, wdone,
                   local, entries, ret, prev>>

\* Variant of ScanLine in which the worker keeps the file open when it moves
\* on to its next entry.
ScanLine_Leak(w) ==
    /\ pc = "scan"
    /\ call.op = "search_dir"
    /\ wslot[w] # 0
    /\ LET k == wslot[w]
           node == fs[entries[k]]
           it == NextLine(node, slots[k].pos)
       IN IF it.some
          THEN /\ slots' = [slots EXCEPT
                     ![k].pos = Advance(node, @),
                     ![k].part = Push(@, MatchLine(call.self.v,
                                        unwrap_or(call.invert, FALSE),
                                        entries[k], it.v))]
               /\ UNCHANGED <<wslot, handles>>
          ELSE /\ slots' = [slots EXCEPT ![k].st = "done"]
               /\ wslot' = [wslot EXCEPT ![w] = 0]
               /\ UNCHANGED handles
    /\ UNCHANGED <<feature, fs, matcher, pc, call, nw, rpos, held, wdone,
                   local, entries, ret, prev>>

\* The worker's sequential reader.lines().enumerate().filter_map(..) over
\* its file, one line per step; at the end of the file the reader is dropped.
ScanLine(w) ==
    /\ pc = "scan"
    /\ call.op = "search_dir"
    /\ wslot[w] # 0
    /\ LET k == wslot[w]
           node == fs[entries[k]]
           it == NextLine(node, slots[k].pos)
       IN IF it.some
          THEN /\ slots' = [slots EXCEPT
                     ![k].pos = Advance(node, @),
                     ![k].part = Push(@, MatchLine(call.self.v,
                                        unwrap_or(call.invert, FALSE),
                                        entries[k], it.v))]
               /\ UNCHANGED <<wslot, handles>>
          ELSE /\ slots' = [slots EXCEPT ![k].st = "done"]
               /\ wslot' = [wslot EXCEPT ![w] = 0]
               /\ handles' = handles \ {entries[k]}
    /\ UNCHANGED <<feature, fs, matcher, pc, call, nw, rpos, held, wdone,
                   local, entries, ret, prev>>

\* Variant of FinishDir that collects the per-file vectors last entry first.
FinishDir_Reversed ==
    /\ pc = "scan"
    /\ call.op = "search_dir"
    /\ \A k \in 1..Len(entries) : slots[k].st = "done"
    /\ ret' = ReturnValue(Concat([k \in 1..Len(entries) |->
                                    slots[Len(entries) + 1 - k].part],
                                 Len(entries)), call.count)
    /\ pc' = "returned"
    /\ DropScan
    /\ UNCHANGED <<feature, fs, matcher, call, prev>>

\* collect() of the per-file vectors in entry order, then count or list.
FinishDir ==
    /\ pc = "scan"
    /\ call.op = "search_dir"
    /\ \A k \in 1..Len(entries) : slots[k].st = "done"
    /\ ret' = ReturnValue(Concat([k \in 1..Len(entries) |-> slots[k].part],
                                 Len(entries)), call.count)
    /\ pc' = "returned"
    /\ DropScan
    /\ UNCHANGED <<feature, fs, matcher, call, prev>>

\* ---------------------------------------------------------------- compile
Patterns == {Foo, UpperFoo, Bar, OpenParen}
EngineOpts == {None, Some("regex"), Some("pcre2"), Some("pcre")}

\* compile / MatcherWrapper::new as called by the host: the caller gets a
\* new handle or the error; a handle it already holds is not touched.
Compile(pattern, ignore_case, engine) ==
    /\ Idle
    /\ prev' = Remember
    /\ call' = [NoCall EXCEPT !.op = "compile", !.pattern = pattern,
                              !.ignore_case = ignore_case, !.engine = engine]
    /\ LET r == new(pattern, ignore_case, engine, feature)
       IN IF r.ok
          THEN /\ matcher' = Some(r.v)
               /\ pc' = "returned"
               /\ ret' = [NoValue EXCEPT !.kind = "matcher"]
          ELSE /\ matcher' = matcher
               /\ pc' = "failed"
               /\ ret' = ErrValue(r.msg)
    /\ DropScan
    /\ UNCHANGED <<feature, fs>>

Texts == {Foo, Bar, UpperFoo, Foo \o Bar}

\* MatcherWrapper::is_match_py
IsMatchPy(text) ==
    /\ Idle
    /\ matcher.some
    /\ prev' = Remember
    /\ call' = [NoCall EXCEPT !.op = "is_match", !.pattern = text]
    /\ pc' = "returned"
    /\ ret' = [NoValue EXCEPT !.kind = "bool", !.n = IF is_match(matcher.v, text) THEN 1 ELSE 0]
    /\ DropScan
    /\ UNCHANGED <<feature, fs, matcher>>

\* ------------------------------------------------- module-level functions
\* The ? after compile(..): the function returns the compile error and its
\* method call is never evaluated.
CompileFails(c, msg) ==
    /\ prev' = Remember
    /\ call' = c
    /\ pc' = "failed"
    /\ ret' = ErrValue(msg)
    /\ DropScan

FnCall(op, pattern, ignore_case, engine, path, count, invert, r) ==
    [NoCall EXCEPT !.op = op, !.path = path, !.count = count, !.invert = invert,
                   !.pattern = pattern, !.ignore_case = ignore_case,
                   !.engine = engine, !.fn = TRUE,
                   !.self = IF r.ok THEN Some(r.v) ELSE None]

\* Variant of FnSearchFile that opens the file before it compiles the
\* pattern.
FnSearchFile_OpenFirst(pattern, ignore_case, engine, path, count, invert, n) ==
    /\ Idle
    /\ LET r == new(pattern, ignore_case, engine, feature)
           c == FnCall("search_file", pattern, ignore_case, engine, path, count, invert, r)
       IN IF open(fs[path]).ok /\ ~r.ok
          THEN CompileFails(c, r.msg)
          ELSE StartFile(c, n)
    /\ UNCHANGED <<feature, fs, matcher>>

\* #[pyfunction] search_file:
\* compile(pattern, ignore_case, engine)?.search_file(path, count, invert_match, py)
FnSearchFile(pattern, ignore_case, engine, path, count, invert, n) ==
    /\ Idle
    /\ LET r == new(pattern, ignore_case, engine, feature)
           c == FnCall("search_file", pattern, ignore_case, engine, path, count, invert, r)
       IN IF r.ok
          THEN StartFile(c, n)
          ELSE CompileFails(c, r.msg)
    /\ UNCHANGED <<feature, fs, matcher>>

\* #[pyfunction] search_dir:
\* compile(pattern, ignore_case, engine)?.search_dir(dir, count, invert_match, py)
FnSearchDir(pattern, ignore_case, engine, dir, count, invert, n) ==
    /\ Idle
    /\ LET r == new(pattern, ignore_case, engine, feature)
           c == FnCall("search_dir", pattern, ignore_case, engine, dir, count, invert, r)
       IN IF r.ok
          THEN StartDir(c, n)
          ELSE CompileFails(c, r.msg)
    /\ UNCHANGED <<feature, fs, matcher>>

\* ------------------------------------------------------- specifications
EmptyTree == [p \in Paths |-> MissingNode]

ScanMatchers == {new(Foo, None, None, FALSE).v}

InitCommon ==
    /\ pc = "idle"
    /\ call = NoCall
    /\ ret = NoValue
    /\ prev = NoPrev
    /\ NoScan

\* The compiler alone: either build, no handle yet.
InitCompile ==
    /\ feature \in BOOLEAN
    /\ fs = EmptyTree
    /\ matcher = None
    /\ InitCommon

NextCompile ==
    \/ \E p \in Patterns, ic \in BoolOpts, e \in EngineOpts : Compile(p, ic, e)
    \/ \E t \in Texts : IsMatchPy(t)

SpecCompile == InitCompile /\ [][NextCompile]_vars

\* One file d/a of any content in a directory d; the caller holds a matcher.
FileTrees ==
    {[EmptyTree EXCEPT !["d"] = DirNode(<<"d/a">>), !["d/a"] = n] : n \in FileNodes}

InitFile ==
    /\ feature = FALSE
    /\ fs \in FileTrees
    /\ matcher \in {Some(m) : m \in ScanMatchers}
    /\ InitCommon

FilePaths == {"d", "d/a", "nx"}

NextFile ==
    \/ \E p \in FilePaths, c \in CountOpts, i \in InvertOpts, n \in Workers :
          SearchFileCall(p, c, i, n)
    \/ \E w \in Workers : Pull(w)
    \/ \E w \in Workers : Process(w)
    \/ FinishFile

SpecFile == InitFile /\ [][NextFile]_vars

\* A tree d = [d/a, d/s], d/s = [d/s/b]: d/a any file, d/s a directory,
\* a link or a directory that cannot be listed, d/s/b one of a few files.
SiblingNodes == {FileNode(<<Foo>>), FileNode(<<Bar, Foo>>), NoPermNode, RdErrNode}

DirTrees ==
    {[EmptyTree EXCEPT !["d"] = DirNode(<<"d/a", "d/s">>), !["d/a"] = a,
                       !["d/s"] = DirNode(<<"d/s/b">>), !["d/s/b"] = b] :
        a \in FileNodes, b \in SiblingNodes}
    \cup
    {[EmptyTree EXCEPT !["d"] = DirNode(<<"d/a", "d/s">>), !["d/a"] = a,
                       !["d/s"] = s, !["d/s/b"] = FileNode(<<Foo>>)] :
        a \in FileNodes, s \in {NoPermDirNode(<<"d/s/b">>), SymlinkNode}}

InitDir ==
    /\ feature = FALSE
    /\ fs \in DirTrees
    /\ matcher \in {Some(m) : m \in ScanMatchers}
    /\ InitCommon

DirPaths == {"d", "nx"}

NextDir ==
    \/ \E d \in DirPaths, c \in CountOpts, i \in InvertOpts, n \in Workers :
          SearchDirCall(d, c, i, n)
    \/ \E w \in Workers, k \in 1..Len(entries) : OpenEntry(w, k)
    \/ \E w \in Workers : ScanLine(w)
    \/ FinishDir

SpecDir == InitDir /\ [][NextDir]_vars

\* Both scans over the same trees: d/a any file, d/s/b a file that opens or
\* one that does not.
ScanTrees ==
    {[EmptyTree EXCEPT !["d"] = DirNode(<<"d/a", "d/s">>), !["d/a"] = a,
                       !["d/s"] = DirNode(<<"d/s/b">>), !["d/s/b"] = b] :
        a \in FileNodes, b \in {FileNode(<<Bar, Foo>>), NoPermNode}}

InitScan ==
    /\ feature = FALSE
    /\ fs \in ScanTrees
    /\ matcher \in {Some(m) : m \in ScanMatchers}
    /\ InitCommon

NextScan ==
    \/ \E c \in CountOpts, i \in InvertOpts, n \in Workers :
          SearchFileCall("d/a", c, i, n)
    \/ \E w \in Workers : Pull(w)
    \/ \E w \in Workers : Process(w)
    \/ FinishFile
    \/ \E c \in CountOpts, i \in InvertOpts, n \in Workers :
          SearchDirCall("d", c, i, n)
    \/ \E w \in Workers, k \in 1..Len(entries) : OpenEntry(w, k)
    \/ \E w \in Workers : ScanLine(w)
    \/ FinishDir

SpecScan == InitScan /\ [][NextScan]_vars

\* The scenario of the documentation: d/a holds the lines foo, bar, foobar
\* and the matcher is compile("foo", ignore_case=false).
FooBar == Foo \o Bar

ExampleTree ==
    [EmptyTree EXCEPT !["d"] = DirNode(<<"d/a", "d/s">>),
                      !["d/a"] = FileNode(<<Foo, Bar, FooBar>>),
                      !["d/s"] = DirNode(<<"d/s/b">>),
                      !["d/s/b"] = FileNode(<<Bar, Foo>>)]

InitExample ==
    /\ feature = FALSE
    /\ fs = ExampleTree
    /\ matcher = Some(new(Foo, Some(FALSE), None, FALSE).v)
    /\ InitCommon

SpecExample == InitExample /\ [][NextScan]_vars

\* The functions next to compile + method, on one small tree, in a build
\* without the pcre feature.
FnTree ==
    [EmptyTree EXCEPT !["d"] = DirNode(<<"d/a">>),
                      !["d/a"] = FileNode(<<Foo, Bad>>)]

InitFn ==
    /\ feature = FALSE
    /\ fs = FnTree
    /\ matcher = None
    /\ InitCommon

FnPatterns == {Foo, OpenParen}
FnCaseOpts == {None}
FnEngineOpts == {None, Some("pcre2")}
FnPaths == {"d/a", "nx"}

NextFn ==
    \/ \E p \in FnPatterns, ic \in FnCaseOpts, e \in FnEngineOpts : Compile(p, ic, e)
    \/ \E p \in FnPaths, c \in CountOpts, i \in InvertOpts, n \in Workers :
          SearchFileCall(p, c, i, n)
    \/ \E c \in CountOpts, i \in InvertOpts, n \in Workers :
          SearchDirCall("d", c, i, n)
    \/ \E pt \in FnPatterns, ic \in FnCaseOpts, e \in FnEngineOpts, p \in FnPaths,
          c \in CountOpts, i \in InvertOpts, n \in Workers :
          FnSearchFile(pt, ic, e, p, c, i, n)
    \/ \E pt \in FnPatterns, ic \in FnCaseOpts, e \in FnEngineOpts,
          c \in CountOpts, i \in InvertOpts, n \in Workers :
          FnSearchDir(pt, ic, e, "d", c, i, n)
    \/ \E w \in Workers : Pull(w)
    \/ \E w \in Workers : Process(w)
    \/ FinishFile
    \/ \E w \in Workers, k \in 1..Len(entries) : OpenEntry(w, k)
    \/ \E w \in Workers : ScanLine(w)
    \/ FinishDir

SpecFn == InitFn /\ [][NextFn]_vars

\* Trees with entries of every type: d/a a file, a file that does not open,
\* a link or a device; d/s a directory, one that cannot be listed, a link or
\* a device.  The walk starts at d, at d/a or at a path that does not exist.
WalkTrees ==
    {[EmptyTree EXCEPT !["d"] = DirNode(<<"d/a", "d/s">>), !["d/a"] = a,
                       !["d/s"] = DirNode(<<"d/s/b">>), !["d/s/b"] = b] :
        a \in {FileNode(<<Foo>>), NoPermNode, SymlinkNode, DeviceNode},
        b \in {FileNode(<<Bar, Foo>>), SymlinkNode}}
    \cup
    {[EmptyTree EXCEPT !["d"] = DirNode(<<"d/a", "d/s">>), !["d/a"] = a,
                       !["d/s"] = s, !["d/s/b"] = FileNode(<<Foo>>)] :
        a \in {FileNode(<<Foo>>), NoPermNode, SymlinkNode, DeviceNode},
        s \in {NoPermDirNode(<<"d/s/b">>), SymlinkNode, DeviceNode}}

InitWalk ==
    /\ feature = FALSE
    /\ fs \in WalkTrees
    /\ matcher \in {Some(m) : m \in ScanMatchers}
    /\ InitCommon

WalkRoots == {"d", "d/a", "nx"}

NextWalk ==
    \/ \E d \in WalkRoots, c \in CountOpts, i \in InvertOpts, n \in Workers :
          SearchDirCall(d, c, i, n)
    \/ \E w \in Workers, k \in 1..Len(entries) : OpenEntry(w, k)
    \/ \E w \in Workers : ScanLine(w)
    \/ FinishDir

SpecWalk == InitWalk /\ [][NextWalk]_vars

\* A caller that compiles matchers of either case sensitivity and uses the
\* one it holds for is_match and for both scans.
UsePatterns == {Foo, UpperFoo}
UseCaseOpts == {None, Some(TRUE)}
UseTexts == {Foo, UpperFoo}

NextUse ==
    \/ \E p \in UsePatterns, ic \in UseCaseOpts : Compile(p, ic, None)
    \/ \E t \in UseTexts : IsMatchPy(t)
    \/ \E c \in CountOpts, i \in InvertOpts, n \in Workers :
          SearchFileCall("d/a", c, i, n)
    \/ \E c \in CountOpts, i \in InvertOpts, n \in Workers :
          SearchDirCall("d", c, i, n)
    \/ \E w \in Workers : Pull(w)
    \/ \E w \in Workers : Process(w)
    \/ FinishFile
    \/ \E w \in Workers, k \in 1..Len(entries) : OpenEntry(w, k)
    \/ \E w \in Workers : ScanLine(w)
    \/ FinishDir

SpecUse == InitFn /\ [][NextUse]_vars

Init == InitCompile \/ InitFile \/ InitDir
Next == NextCompile \/ NextFile \/ NextDir
Spec == Init /\ [][Next]_vars

\* Fairness of the pool: a worker that can step eventually does, and the
\* collecting thread runs once every worker is done.
FairSpecFile ==
    /\ SpecFile
    /\ \A w \in Workers : WF_vars(Pull(w)) /\ WF_vars(Process(w))
    /\ WF_vars(FinishFile)

\* -------------------------------------------------------------- properties
Range(f) == {f[k] : k \in DOMAIN f}
BagOf(seq) == [e \in Range(seq) |-> Cardinality({k \in DOMAIN seq : seq[k] = e})]
Flag(o) == unwrap_or(o, FALSE)

\* The lines of a file a scan with this matcher and invert flag includes.
DecodableOrds(node) == {i \in 1..Len(node.lines) : Decodable(node.lines[i])}
IncludedOrds(node, m, inv) ==
    {i \in DecodableOrds(node) : is_match(m, node.lines[i]) # inv}

\* The result of scanning the file front to back on one thread.
SeqScan(path, node, m, inv) ==
    LET all == [i \in 1..Len(node.lines) |->
                  [path |-> path, line_number |-> i, text |-> node.lines[i]]]
    IN SelectSeq(all, LAMBDA e : e.line_number \in IncludedOrds(node, m, inv))

Ords(r) == {r.list[k].line_number : k \in DOMAIN r.list}
Size(r) == IF r.kind = "count" THEN r.n ELSE Len(r.list)

Returned(op) == pc = "returned" /\ call.op = op
\* The call before this one was the same operation on the same path.
Repeated(op) == Returned(op) /\ prev.call.op = op /\ prev.call.path = call.path
                   /\ prev.ret.kind \in {"list", "count"}

\* C1: with count=false search_file returns the included lines in ascending
\* line_number order, the sequence a sequential scan of the file gives, under
\* every scheduling of the per-line workers.
C1_SequentialOrder ==
    (Returned("search_file") /\ ret.kind = "list")
        => ret.list = SeqScan(call.path, fs[call.path], matcher.v, Flag(call.invert))

\* C2 (as claimed): the ordinals returned with invert_match=true are the
\* complement within 1..N of those returned with invert_match=false, and the
\* two counts sum to N, the file's number of lines.
C2Pair ==
    /\ Repeated("search_file")
    /\ Flag(call.invert)
    /\ ~Flag(prev.call.invert)

C2_ComplementInAllLines ==
    C2Pair =>
        LET N == Len(fs[call.path].lines)
        IN /\ (ret.kind = "list" /\ prev.ret.kind = "list")
                  => Ords(ret) = (1..N) \ Ords(prev.ret)
           /\ Size(ret) + Size(prev.ret) = N

\* C2 (amended): the ordinals returned with invert_match=true are the
\* complement, within the ordinals of the decodable lines, of those returned
\* with invert_match=false, and the two counts sum to the number of
\* decodable lines.
C2_ComplementInDecodableLines ==
    C2Pair =>
        LET D == DecodableOrds(fs[call.path])
        IN /\ (ret.kind = "list" /\ prev.ret.kind = "list")
                  => /\ Ords(ret) = D \ Ords(prev.ret)
                     /\ Ords(prev.ret) \subseteq D
           /\ Size(ret) + Size(prev.ret) = Cardinality(D)

C2_Witness ==
    /\ C2Pair
    /\ ret.kind = "list" /\ prev.ret.kind = "list"
    /\ Len(ret.list) > 0
    /\ DecodableOrds(fs[call.path]) # 1..Len(fs[call.path].lines)

\* C3: a search_file call on a path that cannot be opened or cannot be read
\* fails with the I/O error: it returns neither list nor count, and it does
\* not go on scanning once a worker has taken and dropped a failed read.
Unreadable(node) == ~open(node).ok \/ ReadsFail(node)

C3_UnreadableFails ==
    (call.op = "search_file" /\ Unreadable(fs[call.path]))
        => \/ pc = "failed" /\ ret.kind = "err"
           \/ pc = "scan" /\ (rpos = 0 \/ \E w \in Workers : held[w].some)

\* C4: every call terminates: a running scan eventually returns or fails.
C4_Terminates == (pc = "scan") ~> (pc \in {"returned", "failed"})

\* C5: every MatchEntry returned by search_file or search_dir carries the
\* path of a file the call scanned and the 1-based position of its text in
\* that file's content, also after undecodable lines.
ScannedPaths ==
    IF call.op = "search_file" THEN {call.path}
    ELSE Range(WalkFiles(fs, call.path))

C5_LineNumbers ==
    (pc = "returned" /\ call.op \in {"search_file", "search_dir"}) =>
        \A k \in DOMAIN ret.list :
            LET e == ret.list[k]
            IN /\ e.path \in ScannedPaths
               /\ fs[e.path].kind = "file"
               /\ e.line_number \in 1..Len(fs[e.path].lines)
               /\ fs[e.path].lines[e.line_number] = e.text

\* An entry that follows an undecodable line of its file.
AfterBadLine(r) ==
    /\ r.kind = "list"
    /\ \E k \in DOMAIN r.list :
          \E j \in 1..(r.list[k].line_number - 1) :
              ~Decodable(fs[r.list[k].path].lines[j])

C5_Witness ==
    /\ Returned("search_dir")
    /\ AfterBadLine(ret)
    /\ prev.call.op = "search_file"
    /\ AfterBadLine(prev.ret)

\* C6: search_file with count=true returns the length of the list that
\* search_file with count=false returns on the same path and invert flag.
C6_CountIsLength ==
    (Repeated("search_file") /\ Flag(call.invert) = Flag(prev.call.invert)
       /\ Flag(call.count) /\ ~Flag(prev.call.count))
        => /\ ret.kind = "count"
           /\ prev.ret.kind = "list"
           /\ ret.n = Len(prev.ret.list)

C6_Witness ==
    /\ Repeated("search_file")
    /\ Flag(call.invert) = Flag(prev.call.invert)
    /\ Flag(call.count) /\ ~Flag(prev.call.count)
    /\ ret.kind = "count" /\ ret.n = 2
    /\ prev.ret.kind = "list"
    /\ prev.ret.list # SeqScan(call.path, fs[call.path], matcher.v, Flag(call.invert))

\* C7: search_dir with count=true returns the sum over the scanned files of
\* their numbers of included lines, which is the length of the list that
\* search_dir with count=false returns on the same tree and invert flag.
OpenablePaths == {p \in ScannedPaths : open(fs[p]).ok}

RECURSIVE SumIncluded(_, _, _, _)
SumIncluded(tree, paths, m, inv) ==
    IF paths = <<>> THEN 0
    ELSE (IF open(tree[Head(paths)]).ok
          THEN Cardinality(IncludedOrds(tree[Head(paths)], m, inv))
          ELSE 0) + SumIncluded(tree, Tail(paths), m, inv)

Aggregate(inv) == SumIncluded(fs, WalkFiles(fs, call.path), matcher.v, inv)

C7_DirCountIsLength ==
    (Returned("search_dir") /\ Flag(call.count)) =>
        /\ ret.kind = "count"
        /\ ret.n = Aggregate(Flag(call.invert))
        /\ (Repeated("search_dir") /\ ~Flag(prev.call.count)
               /\ Flag(prev.call.invert) = Flag(call.invert))
              => prev.ret.kind = "list" /\ ret.n = Len(prev.ret.list)

C7_Witness ==
    /\ Repeated("search_dir")
    /\ Flag(call.count) /\ ~Flag(prev.call.count)
    /\ Flag(prev.call.invert) = Flag(call.invert)
    /\ Cardinality(OpenablePaths) = 2
    /\ \A p \in OpenablePaths : IncludedOrds(fs[p], matcher.v, Flag(call.invert)) # {}
    /\ ret.n >= 3

\* C8: search_dir over a tree with files that cannot be opened raises no
\* error, returns every included line of every file that opens, and nothing
\* from the files that do not open.
C8_UnopenableSkipped ==
    Returned("search_dir") =>
        /\ ret.kind \in {"list", "count"}
        /\ ret.kind = "list" =>
              \A p \in ScannedPaths :
                  {ret.list[k].line_number : k \in {j \in DOMAIN ret.list : ret.list[j].path = p}}
                      = IF open(fs[p]).ok
                        THEN IncludedOrds(fs[p], matcher.v, Flag(call.invert))
                        ELSE {}

C8_Witness ==
    /\ Returned("search_dir")
    /\ ret.kind = "list"
    /\ Len(ret.list) > 0
    /\ \E p \in ScannedPaths : ~open(fs[p]).ok

\* C9: in a build without the pcre feature, compile with engine "pcre2"
\* fails with the engine-unavailable error for every pattern and every
\* ignore_case value, returns no matcher, and leaves the caller without a
\* handle it did not already hold.
C9Case == call.op = "compile" /\ ~feature /\ call.engine = Some("pcre2")

C9_PcreUnavailable ==
    /\ (pc # "idle" /\ C9Case)
          => /\ pc = "failed"
             /\ ret.kind = "err"
             /\ ret.msg = "pcre2 engine not enabled"
    /\ (~feature /\ matcher.some) => matcher.v.engine = "Regex"

C9_Witness ==
    /\ C9Case
    /\ pc = "failed"
    /\ call.pattern = OpenParen
    /\ call.ignore_case = Some(TRUE)
    /\ prev.call.op = "compile"
    /\ prev.call.engine = Some("pcre2")
    /\ prev.call.pattern = Foo
    /\ prev.ret.kind = "err"

\* C10: the multiset of entries a scan returns, and its count, depend only on
\* the file contents and the options: each included line of each opened file
\* exactly once, and the same for two calls on the same input whatever the
\* number of workers and the interleaving.
RefEntries(inv) ==
    UNION {{[path |-> p, line_number |-> i, text |-> fs[p].lines[i]] :
               i \in IncludedOrds(fs[p], matcher.v, inv)} : p \in OpenablePaths}

C10_SameMultiset ==
    (pc = "returned" /\ call.op \in {"search_file", "search_dir"}) =>
        /\ ret.kind = "list" =>
              BagOf(ret.list) = [e \in RefEntries(Flag(call.invert)) |-> 1]
        /\ ret.kind = "count" => ret.n = Cardinality(RefEntries(Flag(call.invert)))
        /\ (Repeated(call.op) /\ Flag(prev.call.invert) = Flag(call.invert)) =>
              /\ Size(ret) = Size(prev.ret)
              /\ (ret.kind = "list" /\ prev.ret.kind = "list")
                    => BagOf(ret.list) = BagOf(prev.ret.list)

C10_Witness ==
    /\ Repeated("search_file")
    /\ Flag(prev.call.invert) = Flag(call.invert)
    /\ ret.kind = "list" /\ prev.ret.kind = "list"
    /\ Len(ret.list) = 2
    /\ ret.list # prev.ret.list

\* C11: a line is in the result of a scan iff it is decodable and
\* is_match(text) XOR invert_match; for the lines foo, bar, foobar and the
\* pattern foo, search_file returns [(1, foo), (3, foobar)], inverted
\* [(2, bar)], and the count 2.
Entry(path, i, text) == [path |-> path, line_number |-> i, text |-> text]

C11_InclusionRule ==
    (pc = "returned" /\ call.op \in {"search_file", "search_dir"}) =>
        /\ ret.kind = "list" =>
              \A p \in OpenablePaths : \A i \in 1..Len(fs[p].lines) :
                  (Entry(p, i, fs[p].lines[i]) \in Range(ret.list))
                     <=> /\ Decodable(fs[p].lines[i])
                         /\ is_match(call.self.v, fs[p].lines[i]) # Flag(call.invert)
        /\ (call.op = "search_file" /\ fs[call.path].lines = <<Foo, Bar, FooBar>>
              /\ call.self.v.pattern = Foo /\ ~call.self.v.ignore_case) =>
              /\ (ret.kind = "list" /\ ~Flag(call.invert))
                    => ret.list = <<Entry(call.path, 1, Foo), Entry(call.path, 3, FooBar)>>
              /\ (ret.kind = "list" /\ Flag(call.invert))
                    => ret.list = <<Entry(call.path, 2, Bar)>>
              /\ (ret.kind = "count" /\ ~Flag(call.invert)) => ret.n = 2

\* C12: an undecodable line is skipped by both scans: it is never in the
\* result and never counted, with invert_match false or true, it never fails
\* the call, and the lines after it are still scanned.
C12_UndecodableSkipped ==
    (call.op \in {"search_file", "search_dir"}) =>
        /\ pc = "failed" => ~open(fs[call.path]).ok
        /\ pc = "returned" =>
              /\ ret.kind \in {"list", "count"}
              /\ ret.kind = "list" =>
                    /\ \A k \in DOMAIN ret.list :
                          /\ Decodable(ret.list[k].text)
                          /\ ret.list[k].line_number
                                \in DecodableOrds(fs[ret.list[k].path])
                    /\ \A p \in OpenablePaths :
                          \A i \in IncludedOrds(fs[p], call.self.v, Flag(call.invert)) :
                              Entry(p, i, fs[p].lines[i]) \in Range(ret.list)
              /\ ret.kind = "count" =>
                    ret.n = SumIncluded(fs, WalkFiles(fs, call.path), call.self.v,
                                        Flag(call.invert))

C12_Witness ==
    /\ Returned("search_dir")
    /\ Flag(call.invert)
    /\ AfterBadLine(ret)
    /\ prev.call.op = "search_file"
    /\ Flag(prev.call.invert)
    /\ prev.ret.kind = "count"
    /\ prev.ret.n = 1
    /\ Bad \in Range(fs[prev.call.path].lines)

\* C13: the functions search_file and search_dir give the outcome of compile
\* followed by the method with the same count and invert_match: the compile
\* error, with no file opened and no directory walked, when compilation
\* fails; else the method's outcome on the matcher compile returns (its
\* error, its count, its entries; in the same order for search_dir).
C13SameCall ==
    /\ prev.call.op = call.op
    /\ ~prev.call.fn
    /\ prev.call.path = call.path
    /\ prev.call.count = call.count
    /\ prev.call.invert = call.invert

C13_FnEquivalent ==
    (call.fn /\ pc # "idle") =>
        LET r == new(call.pattern, call.ignore_case, call.engine, feature)
        IN /\ ~r.ok =>
                 /\ pc = "failed"
                 /\ ret = ErrValue(r.msg)
                 /\ handles = {} /\ entries = <<>> /\ nw = 0
           /\ r.ok =>
                 /\ call.self = Some(r.v)
                 /\ pc = "failed" =>
                       /\ call.op = "search_file"
                       /\ ~open(fs[call.path]).ok
                       /\ ret = ErrValue(open(fs[call.path]).msg)
                 /\ (pc \in {"returned", "failed"} /\ C13SameCall
                       /\ prev.call.self = Some(r.v)) =>
                       /\ ret.kind = prev.ret.kind
                       /\ ret.msg = prev.ret.msg
                       /\ ret.n = prev.ret.n
                       /\ BagOf(ret.list) = BagOf(prev.ret.list)
                       /\ call.op = "search_dir" => ret.list = prev.ret.list

C13_Witness ==
    /\ call.fn
    /\ Returned("search_file")
    /\ C13SameCall
    /\ prev.call.self = call.self
    /\ ret.kind = "list"
    /\ Len(ret.list) = 1
    /\ ret = prev.ret

\* C14: compile with a pattern that is invalid for the selected engine fails
\* with the invalid-pattern error, which carries the engine's diagnostic and
\* differs from the engine-unavailable error and from the I/O errors of
\* search_file; it returns no matcher and leaves the caller's handle as it was.
IOMessages == {open(MissingNode).msg, open(NoPermNode).msg}

C14Case ==
    /\ call.op = "compile"
    /\ pc # "idle"
    /\ ~ValidPattern(call.pattern)
    /\ (unwrap_or(call.engine, "regex") = "pcre2") => feature

C14Outcome ==
    C14Case =>
        /\ pc = "failed"
        /\ ret.kind = "err"
        /\ ret.msg = IF unwrap_or(call.engine, "regex") = "pcre2"
                     THEN "Invalid PCRE pattern: " \o Diagnostic("Pcre2", call.pattern)
                     ELSE "Invalid regex: " \o Diagnostic("Regex", call.pattern)
        /\ ret.msg # "pcre2 engine not enabled"
        /\ ret.msg \notin IOMessages

C14_InvalidPattern ==
    /\ []C14Outcome
    /\ [][(call'.op = "compile" /\ ~ValidPattern(call'.pattern)) => matcher' = matcher]_vars

C14_Witness ==
    /\ C14Case
    /\ call.engine = Some("pcre2")
    /\ ret.msg = "Invalid PCRE pattern: missing closing parenthesis"
    /\ matcher.some
    /\ prev.ret.kind = "matcher"

\* C15: a scan never changes the Matcher: the caller's matcher changes only
\* when compile hands out a new one, the workers of a method's scan evaluate
\* the caller's matcher, and is_match answers by that matcher before and
\* after every scan.
C15Fixed ==
    /\ (pc = "scan" /\ ~call.fn) => call.self = matcher
    /\ (call.op = "is_match" /\ pc = "returned") =>
          ret.n = IF is_match(matcher.v, call.pattern) THEN 1 ELSE 0
    /\ (prev.call.op = "is_match" /\ call.op # "compile") =>
          prev.ret.n = IF is_match(matcher.v, prev.call.pattern) THEN 1 ELSE 0

C15_MatcherUnchanged ==
    /\ []C15Fixed
    /\ [][call'.op # "compile" => matcher' = matcher]_vars

C15_Witness ==
    /\ call.op = "is_match"
    /\ pc = "returned"
    /\ call.pattern = Foo
    /\ ret.n = 1
    /\ matcher.v.ignore_case
    /\ prev.call.op = "search_dir"
    /\ prev.ret.kind = "list"
    /\ Len(prev.ret.list) > 0

\* C16: search_dir scans exactly the regular files a recursive walk from dir
\* reaches: no directory, link or device is walked into the scan or opened,
\* an entry that cannot be traversed is left out without failing the call,
\* and a dir that cannot be traversed gives an empty list or the count 0.
RECURSIVE ReachFiles(_, _)
ReachFiles(tree, path) ==
    LET node == tree[path]
    IN IF node.kind = "file" THEN {path}
       ELSE IF node.kind = "dir" /\ node.perm
            THEN UNION {ReachFiles(tree, node.children[k]) : k \in DOMAIN node.children}
            ELSE {}

C16_ExactlyRegularFiles ==
    (call.op = "search_dir" /\ pc # "idle") =>
        LET R == ReachFiles(fs, call.path)
        IN /\ pc # "failed"
           /\ ret.kind # "err"
           /\ pc = "scan" =>
                 /\ Range(entries) = R
                 /\ Len(entries) = Cardinality(R)
                 /\ handles \subseteq R
                 /\ \A p \in handles : fs[p].kind = "file"
           /\ (pc = "returned" /\ ret.kind = "list") =>
                 {ret.list[k].path : k \in DOMAIN ret.list} =
                     {p \in R : /\ open(fs[p]).ok
                                /\ IncludedOrds(fs[p], matcher.v, Flag(call.invert)) # {}}
           /\ (pc = "returned" /\ R = {}) => ret = ReturnValue(<<>>, call.count)

C16_Witness ==
    /\ Returned("search_dir")
    /\ call.path = "nx"
    /\ ret.kind = "list" /\ ret.list = <<>>
    /\ prev.call.op = "search_dir"
    /\ prev.call.path = "d"
    /\ prev.ret.kind = "list" /\ Len(prev.ret.list) > 0
    /\ fs["d/a"].kind = "device"
    /\ fs["d/s"].kind = "dir"

\* C17: no file handle is open once a call has returned or failed, a failed
\* open leaves none, search_file holds only the handle of its path, and in
\* search_dir the open handles are those of the files the busy workers are
\* scanning, one per worker, none left when every entry is done.
Busy == {w \in Workers : wslot[w] # 0}

C17_HandlesReleased ==
    /\ Idle => handles = {}
    /\ (pc = "scan" /\ call.op = "search_file") => handles = {call.path}
    /\ (pc = "scan" /\ call.op = "search_dir") =>
          /\ Busy \subseteq 1..nw
          /\ \A w \in Busy : slots[wslot[w]].st = "open"
          /\ \A v, w \in Busy : wslot[v] = wslot[w] => v = w
          /\ handles = {entries[wslot[w]] : w \in Busy}
          /\ Cardinality(handles) = Cardinality(Busy)
          /\ (\A k \in DOMAIN slots : slots[k].st = "done") => handles = {}

C17_Witness ==
    /\ Returned("search_dir")
    /\ ret.kind = "list"
    /\ Len(ret.list) > 0
    /\ handles = {}
    /\ prev.call.op = "search_file"
    /\ prev.ret.kind = "err"

\* C18: in the list search_dir returns, the entries of one file are
\* contiguous and ascending in line_number, and the files' blocks follow the
\* order in which the walk enumerated the files, whatever the schedule of the
\* workers: the list is the concatenation, in walk order, of each file's
\* sequential scan.
WalkIndex(p) ==
    LET W == WalkFiles(fs, call.path)
    IN CHOOSE k \in DOMAIN W : W[k] = p

RECURSIVE WalkOrderScan(_, _)
WalkOrderScan(W, inv) ==
    IF W = <<>> THEN <<>>
    ELSE (IF open(fs[Head(W)]).ok
          THEN SeqScan(Head(W), fs[Head(W)], matcher.v, inv)
          ELSE <<>>) \o WalkOrderScan(Tail(W), inv)

C18_BlocksInWalkOrder ==
    (Returned("search_dir") /\ ret.kind = "list") =>
        /\ \A i, j \in DOMAIN ret.list :
              i < j =>
                 \/ WalkIndex(ret.list[i].path) < WalkIndex(ret.list[j].path)
                 \/ /\ ret.list[i].path = ret.list[j].path
                    /\ ret.list[i].line_number < ret.list[j].line_number
        /\ ret.list = WalkOrderScan(WalkFiles(fs, call.path), Flag(call.invert))

C18_Witness ==
    /\ Returned("search_dir")
    /\ ret.kind = "list"
    /\ Len(ret.list) >= 3
    /\ ret.list[1].path # ret.list[Len(ret.list)].path
    /\ ret.list[1].path = ret.list[2].path

\* C19: compile selects the extended engine only for the selector "pcre2":
\* with no selector, with "regex" and with any other string it goes to the
\* default engine, builds a default-engine matcher for a valid pattern and
\* never raises the engine-unavailable error, which only the selector
\* "pcre2" can raise.
C19Compiled == call.op = "compile" /\ pc # "idle"

C19_OnlyPcre2Selects ==
    C19Compiled =>
        /\ call.engine # Some("pcre2") =>
              /\ ret.msg # "pcre2 engine not enabled"
              /\ ValidPattern(call.pattern) =>
                    /\ pc = "returned"
                    /\ ret.kind = "matcher"
                    /\ matcher = Some([engine |-> "Regex", pattern |-> call.pattern,
                                       ignore_case |-> Flag(call.ignore_case)])
              /\ ~ValidPattern(call.pattern) =>
                    /\ pc = "failed"
                    /\ ret.msg = "Invalid regex: " \o Diagnostic("Regex", call.pattern)
        /\ ret.msg = "pcre2 engine not enabled" =>
              call.engine = Some("pcre2") /\ ~feature
        /\ (pc = "returned" /\ matcher.v.engine = "Pcre2") =>
              call.engine = Some("pcre2") /\ feature

C19_Witness ==
    /\ C19Compiled
    /\ call.engine = Some("pcre")
    /\ ~feature
    /\ pc = "returned"
    /\ matcher.v.engine = "Regex"
    /\ prev.call.engine = Some("pcre2")
    /\ prev.ret.msg = "pcre2 engine not enabled"

====
